---- MODULE Spec2Model ----
(***************************************************************************)
(* Model of migradb_gui.migration.MigrationExecutor: dependency order,     *)
(* batched copy with column maps, identifier conversion and foreign-key    *)
(* remapping, progress reports, row-count verification, and the single     *)
(* target transaction of run().                                            *)
(***************************************************************************)
EXTENDS Integers, Sequences, FiniteSets, TLC

\* ------------------------------------------------------------------------
\* Bounds
\* ------------------------------------------------------------------------
MaxRows == 2

MaxBatch == 2

\* ------------------------------------------------------------------------
\* Schema universe: every table has a single-column primary key "id", two
\* columns that may carry a foreign key, and two data columns.
\* ------------------------------------------------------------------------
Tables == {"users", "addresses", "legacy"}

NoTable == "none"

PkCol == "id"

FkCols == {"fk1", "fk2"}

DataCols == {"a", "b"}

Columns == {PkCol} \cup FkCols \cup DataCols

NoError == "none"

NoPk == 0

\* Values held by row dictionaries.
IntVal(n) == [kind |-> "int", v |-> n]

UuidVal(n) == [kind |-> "uuid", v |-> n]

TxtVal(n) == [kind |-> "txt", v |-> n]

NullVal == [kind |-> "null", v |-> 0]

PreVal == [kind |-> "pre", v |-> 0]

VARIABLES
    src_fks,        \* source schema: table -> fk column -> referenced table
    src_nrows,      \* source data: table -> number of rows (keys 1..n)
    tgt_tables,     \* tables present in the target schema
    tgt_fks,        \* target schema: table -> fk column -> referenced table
    tgt_cols,       \* target schema: table -> column names
    tgt_pre,        \* rows the target held before the run
    settings,       \* MigrationSettings
    transforms,     \* hooks of the transforms module: [split, transform]
    pc,             \* run(): created / running / committed / rolled_back
    raised,         \* the exception propagating out of the try block
    order,          \* result of _determine_order
    idx,            \* position of the for loop of run() in order
    mpc,            \* position inside _migrate_table
    total_rows,     \* local of _migrate_table
    copied,         \* local of _migrate_table
    last_pk,        \* local of _migrate_table
    insert_rows,    \* local of _migrate_table
    batch_keys,     \* history: source keys of the rows in insert_rows
    batch_maps,     \* history: self._id_maps at the remap of each row of insert_rows
    id_maps,        \* self._id_maps
    next_uuid,      \* number of identifiers generated so far
    tgt_session,    \* target rows as seen inside the transaction
    tgt_committed,  \* target rows durably committed
    progress,       \* calls of progress_cb, in order
    inserted,       \* history: rows handed to executed bulk inserts, per table
    inserts_done,   \* history: number of executed bulk inserts, per table
    pages,          \* history: sizes of the pages the page queries returned, per table
    started,        \* history: tables for which _migrate_table was entered
    completed,      \* history: tables for which _migrate_table returned
    hook_calls,     \* history: calls of post-insert hooks
    file,           \* storage: contents of mappings.json
    writers,        \* storage: per process, the save_mappings call in progress
    lost,           \* storage history: per process, the write that landed after its read
    loaded,         \* storage: the last load_mappings call and its result
    saves,          \* storage history: completed save_mappings calls, in order
    procs,          \* storage: the processes that call save_mappings
    cc              \* validator: arguments and result of compare_constraints

cfgVars == <<src_fks, src_nrows, tgt_tables, tgt_fks, tgt_cols, tgt_pre, settings, transforms>>

\* state of storage.py and validator.py, untouched by the executor
auxVars == <<file, writers, lost, loaded, saves, procs, cc>>

tblVars == <<total_rows, copied, last_pk, insert_rows, batch_keys, batch_maps>>

execVars == <<pc, raised, order, idx, mpc, total_rows, copied, last_pk, insert_rows,
              batch_keys, batch_maps, id_maps, next_uuid, tgt_session, tgt_committed, progress,
              inserted, inserts_done, pages, started, completed, hook_calls>>

vars == <<src_fks, src_nrows, tgt_tables, tgt_fks, tgt_cols, tgt_pre, settings, transforms,
          pc, raised, order, idx, mpc, total_rows, copied, last_pk, insert_rows,
          batch_keys, batch_maps, id_maps, next_uuid, tgt_session, tgt_committed, progress,
          inserted, inserts_done, pages, started, completed, hook_calls,
          file, writers, lost, loaded, saves, procs, cc>>

\* ------------------------------------------------------------------------
\* Helpers
\* ------------------------------------------------------------------------
RECURSIVE Perms(_)
Perms(S) ==
    IF S = {} THEN {<< >>}
    ELSE UNION {{<<x>> \o p : p \in Perms(S \ {x})} : x \in S}

Range(s) == {s[i] : i \in 1..Len(s)}

Min(a, b) == IF a < b THEN a ELSE b

\* dict assignment d[k] = v (adds the key when it is new)
DictSet(d, k, v) == [c \in DOMAIN d \cup {k} |-> IF c = k THEN v ELSE d[c]]

\* ------------------------------------------------------------------------
\* Source data (static): row k of table t
\* ------------------------------------------------------------------------
\* a reference column holds the key of a row of the table it references (the
\* table named by the source foreign key or, when the source declares none,
\* by the target foreign key), or NULL
FkValue(fks, tfks, nrows, t, c, k) ==
    LET p == IF fks[t][c] # NoTable THEN fks[t][c] ELSE tfks[t][c] IN
    IF p = NoTable \/ nrows[p] = 0 THEN NullVal
    ELSE IntVal((k % nrows[p]) + 1)

SrcRow(fks, tfks, nrows, t, k) ==
    [c \in Columns |->
        IF c = PkCol THEN IntVal(k)
        ELSE IF c \in FkCols THEN FkValue(fks, tfks, nrows, t, c, k)
        ELSE IF c = "a" THEN TxtVal(10 * k + 1)
        ELSE TxtVal(10 * k + 2)]

\* ------------------------------------------------------------------------
\* _determine_order
\* ------------------------------------------------------------------------
\* graph[table] = tables referenced by the foreign keys of table
Graph(fks) == [t \in Tables |-> {fks[t][c] : c \in FkCols} \ {NoTable}]

InDegreePerForeignKey(graph) ==
    [d \in Tables |-> Cardinality({tc \in Tables \X FkCols : src_fks[tc[1]][tc[2]] = d})]

\* in_degree[d] is incremented once for every table whose deps contain d
InDegree(graph) == [d \in Tables |-> Cardinality({t \in Tables : d \in graph[t]})]

\* the while loop of Kahn's algorithm; the iteration order of the set
\* graph[n] is not fixed, so every order of the newly ready tables is possible
RECURSIVE KahnLoop(_, _, _, _)
KahnLoop(graph, queue, ord, deg) ==
    IF queue = << >> THEN {ord}
    ELSE LET n == Head(queue)
             deg2 == [m \in Tables |-> IF m \in graph[n] THEN deg[m] - 1 ELSE deg[m]]
             ready == {m \in graph[n] : deg2[m] = 0}
         IN UNION {KahnLoop(graph, Tail(queue) \o p, Append(ord, n), deg2) : p \in Perms(ready)}

\* the initial queue lists the tables of in-degree 0 in the order of
\* sorted_tables, which this model leaves open
DetermineOrders(fks) ==
    LET graph == Graph(fks)
        deg == InDegree(graph)
    IN UNION {KahnLoop(graph, q, << >>, deg) : q \in Perms({t \in Tables : deg[t] = 0})}

\* ------------------------------------------------------------------------
\* _migrate_table: per-row transformation
\* ------------------------------------------------------------------------
PageQueryInclusive(nrows, t, last, batch) ==
    LET first == IF last = NoPk THEN 1 ELSE last
        lastKey == Min(nrows[t], first + batch - 1)
    IN [i \in 1..(IF lastKey >= first THEN lastKey - first + 1 ELSE 0) |-> first + i - 1]

\* select(src_tbl).order_by(pk).limit(batch_size) [.where(pk > last_pk)]
PageQuery(nrows, t, last, batch) ==
    LET first == IF last = NoPk THEN 1 ELSE last + 1
        lastKey == Min(nrows[t], first + batch - 1)
    IN [i \in 1..(IF lastKey >= first THEN lastKey - first + 1 ELSE 0) |-> first + i - 1]

\* for tgt_col, src_col in col_map.items(): row_dict[tgt_col] = row_dict[src_col]
RECURSIVE ApplyColMap(_, _)
ApplyColMap(row, cm) ==
    IF cm = << >> THEN row
    ELSE LET tgt_col == Head(cm)[1]
             src_col == Head(cm)[2]
         IN ApplyColMap(IF src_col \in DOMAIN row
                           THEN DictSet(row, tgt_col, row[src_col])
                           ELSE row,
                        Tail(cm))

ConvertPkSkipped(row, new_uuid) == row

\* the new primary key of a converted row
ConvertPk(row, new_uuid) == DictSet(row, PkCol, new_uuid)

\* old_val in self._id_maps[ref_tbl]: the keys are the integer source keys
InIdMap(maps, ref, val) == val.kind = "int" /\ val.v \in DOMAIN maps[ref]

RemapColByOwnTable(row, maps, tfks, t, c) ==
    IF tfks[t][c] # NoTable /\ c \in DOMAIN row /\ InIdMap(maps, t, row[c])
    THEN maps[t][row[c].v]
    ELSE row[c]

\* remap of one foreign-key column of the target table
RemapCol(row, maps, tfks, t, c) ==
    LET ref == tfks[t][c] IN
    IF ref # NoTable /\ c \in DOMAIN row /\ InIdMap(maps, ref, row[c])
    THEN maps[ref][row[c].v]
    ELSE row[c]

RemapFks(row, maps, tfks, t) ==
    [c \in DOMAIN row |-> IF c \in FkCols THEN RemapCol(row, maps, tfks, t, c) ELSE row[c]]

\* self._id_maps[tbl_name][last_pk] = new_uuid
RecordId(maps, t, k, new_uuid) ==
    [maps EXCEPT ![t] = [o \in DOMAIN maps[t] \cup {k} |-> IF o = k THEN new_uuid ELSE maps[t][o]]]

\* the body of "for row in rows" for a whole page: returns the insert rows,
\* the identifier maps and the number of identifiers generated
RECURSIVE TransformRows(_, _, _)
TransformRows(t, keys, acc) ==
    IF keys = << >> THEN acc
    ELSE LET k == Head(keys)
             row0 == SrcRow(src_fks, tgt_fks, src_nrows, t, k)
             row1 == ApplyColMap(row0, settings.column_maps[t])
             conv == t \in settings.uuid_tables
             new_uuid == UuidVal(acc.next + 1)
             maps1 == IF conv THEN RecordId(acc.maps, t, k, new_uuid) ELSE acc.maps
             row2 == IF conv THEN ConvertPk(row1, new_uuid) ELSE row1
             row3 == RemapFks(row2, maps1, tgt_fks, t)
         IN TransformRows(t, Tail(keys),
                [rows |-> Append(acc.rows, row3),
                 keys |-> Append(acc.keys, k),
                 seen |-> Append(acc.seen, maps1),
                 maps |-> maps1,
                 next |-> IF conv THEN acc.next + 1 ELSE acc.next])

\* ------------------------------------------------------------------------
\* Configurations: schemas, data and settings the executor is built with
\* ------------------------------------------------------------------------
NoFks == [t \in Tables |-> [c \in FkCols |-> NoTable]]

WithFk(fks, t, c, p) == [fks EXCEPT ![t][c] = p]

\* every schema in which each table has at most one foreign key (fk1)
Fk1Graphs == {[t \in Tables |-> [c \in FkCols |-> IF c = "fk1" THEN f[t] ELSE NoTable]] :
                f \in [Tables -> Tables \cup {NoTable}]}

UsersAddresses == WithFk(NoFks, "addresses", "fk1", "users")

NamedGraphs ==
    {NoFks,
     UsersAddresses,
     WithFk(UsersAddresses, "addresses", "fk2", "users"),
     WithFk(UsersAddresses, "addresses", "fk2", "legacy"),
     WithFk(UsersAddresses, "legacy", "fk1", "addresses")}

\* a foreign key of users into itself
SelfReference == WithFk(NoFks, "users", "fk2", "users")

NoMaps == [t \in Tables |-> << >>]

\* column maps as ordered (target column, source column) pairs
MapChoices ==
    {<< >>,
     <<<<"a", "b">>>>,
     <<<<"a", "b">>, <<"b", "a">>>>,
     <<<<"b", "a">>, <<"a", "b">>>>,
     <<<<"name", "a">>>>,
     <<<<"a", "missing">>>>,
     <<<<"id", "a">>>>}

NoRows == [t \in Tables |-> << >>]

PreRow == [c \in Columns |-> PreVal]

PreChoices == {NoRows, [NoRows EXCEPT !["users"] = <<PreRow>>]}

NoHooks == [split |-> {}, transform |-> {}]

Uniform(n) == [t \in Tables |-> n]

\* the target has the columns of the source
SameColumns == [t \in Tables |-> Columns]

\* the target table users has column "name" in place of column "a"
RenamedColumns == [SameColumns EXCEPT !["users"] = (Columns \ {"a"}) \cup {"name"}]

Config(sf, tf, nr, tt, pre, ut, cm, bs, va) ==
    [src_fks |-> sf, tgt_fks |-> tf, src_nrows |-> nr, tgt_tables |-> tt,
     tgt_cols |-> SameColumns, tgt_pre |-> pre,
     settings |-> [uuid_tables |-> ut, column_maps |-> cm, batch_size |-> bs, validate |-> va],
     transforms |-> NoHooks]

\* dependency graphs, tables missing from the target, verification on and off
OrderConfigs ==
    {Config(g, g, Uniform(n), tt, pre, {}, NoMaps, 1, va) :
        g \in Fk1Graphs, n \in 0..MaxRows, tt \in {Tables, Tables \ {"legacy"}},
        pre \in PreChoices, va \in BOOLEAN}

\* identifier conversion and foreign-key remapping
UuidConfigs ==
    {Config(sg, tg, Uniform(n), Tables, NoRows, ut, NoMaps, bs, TRUE) :
        sg \in NamedGraphs, tg \in NamedGraphs \cup {SelfReference}, n \in 0..MaxRows,
        ut \in SUBSET Tables, bs \in 1..MaxBatch}

\* column maps
MapConfigs ==
    {[Config(g, g, Uniform(n), Tables, NoRows, ut, [NoMaps EXCEPT !["users"] = m], 1, TRUE)
        EXCEPT !.tgt_cols = IF m = <<<<"name", "a">>>> THEN RenamedColumns ELSE SameColumns] :
        g \in {NoFks, UsersAddresses}, n \in 1..MaxRows, ut \in {{}, {"users"}},
        m \in MapChoices}

\* functions split_<table> and transform_<table> defined in the transforms module
HookChoices ==
    {[split |-> sp, transform |-> tr] :
        sp \in {{}, {"users"}}, tr \in {{}, {"users"}, {"users", "addresses"}}}

HookConfigs ==
    {[Config(g, g, Uniform(n), Tables, pre, {}, NoMaps, bs, va) EXCEPT !.transforms = h] :
        g \in {NoFks, UsersAddresses}, n \in 0..MaxRows, pre \in PreChoices,
        bs \in 1..MaxBatch, va \in BOOLEAN, h \in HookChoices}

\* batching
BatchConfigs ==
    {Config(g, g, nr, Tables, pre, {}, NoMaps, bs, va) :
        g \in {NoFks, UsersAddresses}, nr \in [Tables -> 0..MaxRows],
        pre \in PreChoices, bs \in 1..MaxBatch, va \in BOOLEAN}

Configs == OrderConfigs \cup UuidConfigs \cup MapConfigs \cup BatchConfigs \cup HookConfigs

\* ------------------------------------------------------------------------
\* Init: the state after MigrationExecutor.__init__
\* ------------------------------------------------------------------------
ExecInit(configs) ==
    /\ \E c \in configs :
        /\ src_fks = c.src_fks
        /\ tgt_fks = c.tgt_fks
        /\ tgt_cols = c.tgt_cols
        /\ src_nrows = c.src_nrows
        /\ tgt_tables = c.tgt_tables
        /\ tgt_pre = c.tgt_pre
        /\ settings = c.settings
        /\ transforms = c.transforms
        /\ tgt_session = c.tgt_pre
        /\ tgt_committed = c.tgt_pre
    /\ pc = "created"
    /\ raised = NoError
    /\ order = << >>
    /\ idx = 1
    /\ mpc = "start"
    /\ total_rows = 0
    /\ copied = 0
    /\ last_pk = NoPk
    /\ insert_rows = << >>
    /\ batch_keys = << >>
    /\ batch_maps = << >>
    /\ id_maps = [t \in Tables |-> << >>]
    /\ next_uuid = 0
    /\ progress = << >>
    /\ inserted = NoRows
    /\ inserts_done = [t \in Tables |-> 0]
    /\ pages = [t \in Tables |-> << >>]
    /\ started = << >>
    /\ completed = << >>
    /\ hook_calls = << >>

\* no storage or validator call is in progress
AuxIdle ==
    /\ file = [kind |-> "absent", doc |-> << >>]
    /\ writers = << >>
    /\ lost = << >>
    /\ loaded = << >>
    /\ saves = << >>
    /\ procs = {}
    /\ cc = << >>

InitOf(configs) == ExecInit(configs) /\ AuxIdle

Init == InitOf(Configs)

\* the configurations under which termination of run() is stated
FairConfigs == OrderConfigs \cup MapConfigs

FairInit == InitOf(FairConfigs)

\* the configurations under which termination of the batch loop is stated:
\* every row count per table and every batch size
LoopConfigs ==
    {Config(g, g, nr, Tables, NoRows, {}, NoMaps, bs, TRUE) :
        g \in {NoFks, UsersAddresses}, nr \in [Tables -> 0..MaxRows], bs \in 1..MaxBatch}

LoopInit == InitOf(LoopConfigs)

\* ------------------------------------------------------------------------
\* run()
\* ------------------------------------------------------------------------
InTrySwallowing == pc = "running"

\* inside the try block of run(): an exception leaves the block for the
\* except clause
InTry == pc = "running" /\ raised = NoError

CurTable == order[idx]

\* order = self._determine_order(); the sessions are opened; tgt_sess.begin()
RunStart ==
    /\ pc = "created"
    /\ \E o \in DetermineOrders(src_fks) : order' = o
    /\ pc' = "running"
    /\ idx' = 1
    /\ mpc' = "start"
    /\ UNCHANGED <<auxVars, cfgVars, tblVars, raised, id_maps, next_uuid, tgt_session,
                   tgt_committed, progress, inserted, inserts_done, pages, started,
                   completed, hook_calls>>

\* _migrate_table up to the batch loop: split hook, target table lookup,
\* source row count
MigrateTableStart ==
    /\ InTry /\ idx <= Len(order) /\ mpc = "start"
    /\ started' = Append(started, CurTable)
    /\ IF CurTable \in transforms.split
         THEN \* self._migrate_with_split is not defined
              /\ raised' = "AttributeError"
              /\ UNCHANGED <<tblVars, mpc>>
         ELSE IF CurTable \notin tgt_tables
         THEN \* self._tgt_meta.tables[tbl_name]
              /\ raised' = "KeyError"
              /\ UNCHANGED <<tblVars, mpc>>
         ELSE /\ total_rows' = src_nrows[CurTable]
              /\ copied' = 0
              /\ last_pk' = NoPk
              /\ insert_rows' = << >>
              /\ batch_keys' = << >>
              /\ batch_maps' = << >>
              /\ mpc' = "fetch"
              /\ UNCHANGED raised
    /\ UNCHANGED <<auxVars, cfgVars, pc, order, idx, id_maps, next_uuid, tgt_session,
                   tgt_committed, progress, inserted, inserts_done, pages, completed,
                   hook_calls>>

LastSeenPkOfFirstRow(keys) == keys[1]

\* last_pk = row_dict[pk_col.name], assigned for every row of the page in order
LastSeenPk(keys) == keys[Len(keys)]

\* one page query and the transformation of its rows
FetchBatch ==
    /\ InTry /\ idx <= Len(order) /\ mpc = "fetch"
    /\ LET keys == PageQuery(src_nrows, CurTable, last_pk, settings.batch_size)
           res == TransformRows(CurTable, keys,
                     [rows |-> << >>, keys |-> << >>, seen |-> << >>,
                      maps |-> id_maps, next |-> next_uuid])
       IN /\ pages' = [pages EXCEPT ![CurTable] = Append(@, Len(keys))]
          /\ IF keys = << >>
             THEN /\ mpc' = "validate"
                  /\ UNCHANGED <<last_pk, insert_rows, batch_keys, batch_maps, id_maps, next_uuid>>
             ELSE /\ mpc' = "insert"
                  /\ last_pk' = LastSeenPk(keys)
                  /\ insert_rows' = res.rows
                  /\ batch_keys' = res.keys
                  /\ batch_maps' = res.seen
                  /\ id_maps' = res.maps
                  /\ next_uuid' = res.next
    /\ UNCHANGED <<auxVars, cfgVars, pc, raised, order, idx, total_rows, copied, tgt_session,
                   tgt_committed, progress, inserted, inserts_done, started,
                   completed, hook_calls>>

\* tgt_sess.execute(tgt_tbl.insert(), insert_rows): executes inside the
\* transaction, or raises
InsertBatch ==
    /\ InTry /\ idx <= Len(order) /\ mpc = "insert"
    /\ \E ok \in BOOLEAN :
        IF ok
        THEN /\ tgt_session' = [tgt_session EXCEPT ![CurTable] = @ \o insert_rows]
             /\ inserted' = [inserted EXCEPT ![CurTable] =
                    @ \o [i \in 1..Len(insert_rows) |->
                            [key |-> batch_keys[i], row |-> insert_rows[i], maps |-> batch_maps[i]]]]
             /\ inserts_done' = [inserts_done EXCEPT ![CurTable] = @ + 1]
             /\ mpc' = "progress"
             /\ UNCHANGED raised
        ELSE /\ raised' = "SQLAlchemyError"
             /\ UNCHANGED <<tgt_session, inserted, inserts_done, mpc>>
    /\ UNCHANGED <<auxVars, cfgVars, tblVars, pc, order, idx, id_maps, next_uuid,
                   tgt_committed, progress, pages, started, completed, hook_calls>>

NewCopiedByBatchSize(old, rows) == old + settings.batch_size

\* copied += len(insert_rows)
NewCopied(old, rows) == old + Len(rows)

\* copied += len(insert_rows); self._progress_cb(tbl_name, copied, total_rows)
ReportProgress ==
    /\ InTry /\ idx <= Len(order) /\ mpc = "progress"
    /\ copied' = NewCopied(copied, insert_rows)
    /\ progress' = Append(progress, <<CurTable, copied', total_rows>>)
    /\ mpc' = "fetch"
    /\ UNCHANGED <<auxVars, cfgVars, pc, raised, order, idx, total_rows, last_pk, insert_rows,
                   batch_keys, batch_maps, id_maps, next_uuid, tgt_session, tgt_committed,
                   inserted, inserts_done, pages, started, completed, hook_calls>>

CountShort(tgt_count, total) == tgt_count < total

\* tgt_count != total_rows
CountMismatch(tgt_count, total) == tgt_count # total

\* post-copy integrity check
Validate ==
    /\ InTry /\ idx <= Len(order) /\ mpc = "validate"
    /\ IF settings.validate /\ CountMismatch(Len(tgt_session[CurTable]), total_rows)
         THEN raised' = "ValueError" /\ UNCHANGED mpc
         ELSE mpc' = "hook" /\ UNCHANGED raised
    /\ UNCHANGED <<auxVars, cfgVars, tblVars, pc, order, idx, id_maps, next_uuid, tgt_session,
                   tgt_committed, progress, inserted, inserts_done, pages, started,
                   completed, hook_calls>>

\* post-insert hook, then _migrate_table returns and the for loop advances
FinishTable ==
    /\ InTry /\ idx <= Len(order) /\ mpc = "hook"
    /\ IF CurTable \in transforms.transform
         THEN IF last_pk = NoPk
              THEN \* insert_rows was never assigned
                   /\ raised' = "UnboundLocalError"
                   /\ UNCHANGED <<hook_calls, completed, idx, mpc>>
              ELSE /\ hook_calls' = Append(hook_calls, <<CurTable, insert_rows>>)
                   /\ completed' = Append(completed, CurTable)
                   /\ idx' = idx + 1
                   /\ mpc' = "start"
                   /\ UNCHANGED raised
         ELSE /\ completed' = Append(completed, CurTable)
              /\ idx' = idx + 1
              /\ mpc' = "start"
              /\ UNCHANGED <<raised, hook_calls>>
    /\ UNCHANGED <<auxVars, cfgVars, tblVars, pc, order, id_maps, next_uuid, tgt_session,
                   tgt_committed, progress, inserted, inserts_done, pages, started>>

\* what tgt_sess.commit() makes durable
CommitResult(session, committed) == session

\* tgt_sess.commit() after the for loop
Commit ==
    /\ InTry /\ idx > Len(order)
    /\ tgt_committed' = CommitResult(tgt_session, tgt_committed)
    /\ pc' = "committed"
    /\ UNCHANGED <<auxVars, cfgVars, tblVars, raised, order, idx, mpc, id_maps, next_uuid,
                   tgt_session, progress, inserted, inserts_done, pages, started,
                   completed, hook_calls>>

RollbackKeepsRows(session, committed) == session

\* what tgt_sess.rollback() leaves durable
RollbackResult(session, committed) == committed

\* except Exception: tgt_sess.rollback(); raise
Rollback ==
    /\ pc = "running" /\ raised # NoError
    /\ tgt_committed' = RollbackResult(tgt_session, tgt_committed)
    /\ tgt_session' = tgt_committed'
    /\ pc' = "rolled_back"
    /\ UNCHANGED <<auxVars, cfgVars, tblVars, raised, order, idx, mpc, id_maps, next_uuid,
                   progress, inserted, inserts_done, pages, started, completed, hook_calls>>

Next ==
    \/ RunStart
    \/ MigrateTableStart
    \/ FetchBatch
    \/ InsertBatch
    \/ ReportProgress
    \/ Validate
    \/ FinishTable
    \/ Commit
    \/ Rollback

Spec == Init /\ [][Next]_vars

\* run() is sequential code: each step is taken once it is enabled
FairSpec == FairInit /\ [][Next]_vars /\ WF_vars(Next)

\* the batch loop is sequential code: a step that can be taken is taken
LoopSpec == LoopInit /\ [][Next]_vars /\ WF_vars(Next)

\* ------------------------------------------------------------------------
\* storage.py: the column-map store, one JSON document in one file
\* ------------------------------------------------------------------------
MaxSaves == 2

\* processes that may call into the store
Processes == {1, 2}

Endpoint(h, d) == [host |-> h, database |-> d]

ConnectionPair(s, t) == [source |-> s, target |-> t]

NoPair == ConnectionPair(Endpoint("none", "none"), Endpoint("none", "none"))

\* two pairs with the same database names on different hosts, and two pairs
\* whose database names differ but contain the separator
Pairs ==
    {ConnectionPair(Endpoint("h1", "a"), Endpoint("h1", "b")),
     ConnectionPair(Endpoint("h2", "a"), Endpoint("h1", "b")),
     ConnectionPair(Endpoint("h1", "a->"), Endpoint("h1", "b")),
     ConnectionPair(Endpoint("h1", "a"), Endpoint("h1", "->b"))}

NoMapping == << >>

\* maps: table name -> (target column -> source column)
MapsChoices ==
    {[t \in {"users"} |-> [c \in {"name"} |-> "a"]],
     [t \in {"users"} |-> [c \in {"a"} |-> "b"]]}

AbsentFile == [kind |-> "absent", doc |-> NoMapping]

CorruptFile == [kind |-> "corrupt", doc |-> NoMapping]

\* _load_file: the parsed document; {} when the file is missing or not JSON
LoadFile(f) == IF f.kind = "json" THEN f.doc ELSE NoMapping

SaveFileMerging(data) ==
    [kind |-> "json",
     doc |-> [k \in DOMAIN data \cup DOMAIN LoadFile(file) |->
                 IF k \in DOMAIN data THEN data[k] ELSE LoadFile(file)[k]]]

\* _save_file: the file content is replaced by the serialised dictionary
SaveFile(data) == [kind |-> "json", doc |-> data]

PairKey(pair) == pair.source.database \o "->" \o pair.target.database

\* data.get(key, {})
Get(data, key) == IF key \in DOMAIN data THEN data[key] ELSE NoMapping

SaveDataAlone(data, key, maps) == [k \in {key} |-> maps]

\* data[key] = maps
SaveData(data, key, maps) == DictSet(data, key, maps)

IdleCall == [pc |-> "idle", pair |-> NoPair, maps |-> NoMapping, data |-> NoMapping]

IdleConfig == Config(NoFks, NoFks, Uniform(0), Tables, NoRows, {}, NoMaps, 1, FALSE)

StorageInit ==
    /\ ExecInit({IdleConfig})
    /\ file \in {AbsentFile, CorruptFile}
    /\ procs \in {{1}, Processes}
    /\ writers = [p \in procs |-> IdleCall]
    /\ lost = [p \in procs |-> {}]
    /\ loaded = << >>
    /\ saves = << >>
    /\ cc = << >>

SavesStarted == Len(saves) + Cardinality({p \in procs : writers[p].pc = "loaded"})

\* save_mappings, line 1: data = _load_file()
SaveRead(p, pair, maps) ==
    /\ writers[p].pc = "idle"
    /\ SavesStarted < MaxSaves
    /\ writers' = [writers EXCEPT ![p] =
                      [pc |-> "loaded", pair |-> pair, maps |-> maps, data |-> LoadFile(file)]]
    /\ lost' = [lost EXCEPT ![p] = {}]
    /\ UNCHANGED <<cfgVars, execVars, file, loaded, saves, procs, cc>>

\* save_mappings, lines 2 and 3: data[key] = maps; _save_file(data)
SaveWrite(p) ==
    /\ writers[p].pc = "loaded"
    /\ LET w == writers[p]
           key == PairKey(w.pair)
       IN /\ file' = SaveFile(SaveData(w.data, key, w.maps))
          /\ saves' = Append(saves, [proc |-> p, pair |-> w.pair, maps |-> w.maps,
                                     data |-> w.data, lost |-> lost[p]])
          /\ lost' = [q \in procs |->
                         IF q = p THEN {}
                         ELSE IF writers[q].pc = "loaded"
                              THEN lost[q] \cup {[key |-> key, maps |-> w.maps]}
                              ELSE lost[q]]
    /\ writers' = [writers EXCEPT ![p] = IdleCall]
    /\ UNCHANGED <<cfgVars, execVars, loaded, procs, cc>>

\* load_mappings
LoadMappings(p, pair) ==
    /\ writers[p].pc = "idle"
    /\ loaded' = [pair |-> pair, maps |-> Get(LoadFile(file), PairKey(pair)), at |-> Len(saves)]
    /\ UNCHANGED <<cfgVars, execVars, file, writers, lost, saves, procs, cc>>

StorageNext ==
    \/ \E p \in procs, pair \in Pairs, maps \in MapsChoices : SaveRead(p, pair, maps)
    \/ \E p \in procs : SaveWrite(p)
    \/ \E p \in procs, pair \in Pairs : LoadMappings(p, pair)

StorageSpec == StorageInit /\ [][StorageNext]_vars

\* ------------------------------------------------------------------------
\* validator.py: compare_constraints(src_tbl, tgt_tbl)
\* ------------------------------------------------------------------------
TableColumns == {"id", "a", "b"}

ReferencedTables == {"users", "legacy"}

\* a reflected table: its primary-key columns, the nullable flag of every
\* column (a primary-key column is never nullable) and, per reference column,
\* the table its foreign key points to
TableDescriptors ==
    {d \in [pk : SUBSET {"id", "a"},
            nullable : [TableColumns -> BOOLEAN],
            fks : [FkCols -> ReferencedTables \cup {NoTable}]] :
        \A c \in d.pk : ~d.nullable[c]}

\* {c.name for c in tbl.columns if not c.nullable}
NotNullNames(tbl) == {c \in TableColumns : ~tbl.nullable[c]}

\* {fk.column.table.name for fk in tbl.foreign_keys}
FkTableNames(tbl) == {tbl.fks[c] : c \in FkCols} \ {NoTable}

SymmetricDifference(a, b) == (a \ b) \cup (b \ a)

FksDiffer(src_fk, tgt_fk) == SymmetricDifference(src_fk, tgt_fk)

\* src_fk - tgt_fk
MissingFks(src_fk, tgt_fk) == src_fk \ tgt_fk

Issue(msg, detail) == [msg |-> msg, detail |-> detail]

CompareConstraintsIssues(src_tbl, tgt_tbl) ==
    LET src_nn == NotNullNames(src_tbl)
        tgt_nn == NotNullNames(tgt_tbl)
        src_fk == FkTableNames(src_tbl)
        tgt_fk == FkTableNames(tgt_tbl)
    IN  (IF Cardinality(src_tbl.pk) # Cardinality(tgt_tbl.pk)
         THEN <<Issue("Primary key column count mismatch", {})>> ELSE << >>)
        \o (IF src_nn # tgt_nn
            THEN <<Issue("NOT NULL columns differ", SymmetricDifference(src_nn, tgt_nn))>>
            ELSE << >>)
        \o (IF MissingFks(src_fk, tgt_fk) # {}
            THEN <<Issue("Missing FKs in target", MissingFks(src_fk, tgt_fk))>>
            ELSE << >>)

ValidatorInit ==
    /\ ExecInit({IdleConfig})
    /\ file = AbsentFile
    /\ writers = << >>
    /\ lost = << >>
    /\ loaded = << >>
    /\ saves = << >>
    /\ procs = {}
    /\ \E s \in TableDescriptors, t \in TableDescriptors :
          cc = [pc |-> "called", src |-> s, tgt |-> t, issues |-> << >>]

CompareConstraints ==
    /\ cc.pc = "called"
    /\ cc' = [cc EXCEPT !.pc = "returned",
                        !.issues = CompareConstraintsIssues(cc.src, cc.tgt)]
    /\ UNCHANGED <<cfgVars, execVars, file, writers, lost, loaded, saves, procs>>

ValidatorNext == CompareConstraints

ValidatorSpec == ValidatorInit /\ [][ValidatorNext]_vars

\* ------------------------------------------------------------------------
\* Properties
\* ------------------------------------------------------------------------
Pos(seq, x) == CHOOSE i \in 1..Len(seq) : seq[i] = x

Rows(log) == [i \in 1..Len(log) |-> log[i].row]

Terminal == pc \in {"committed", "rolled_back"}

\* A reaches B along foreign keys in one or more steps
Reaches(graph, A, B) ==
    \/ B \in graph[A]
    \/ \E X \in graph[A] : B \in graph[X]
    \/ \E X \in graph[A] : \E Y \in graph[X] : B \in graph[Y]

Cyclic(graph) == \E t \in Tables : Reaches(graph, t, t)

\* C1: for every foreign-key edge A -> B (A # B) the order places B before A,
\* and run() has finished migrating B whenever it has started migrating A.
C1_ReferencedTableFirst ==
    pc # "created" =>
        \A A \in Tables : \A B \in Graph(src_fks)[A] \ {A} :
            /\ (A \in Range(order) /\ B \in Range(order)) => Pos(order, B) < Pos(order, A)
            /\ A \in Range(started) => B \in Range(completed)

\* C2: the target durably holds either its prior rows plus every row the run
\* inserted, for all tables at once (the run committed), or exactly its prior
\* rows (before the end of the run, and after a rollback).
C2_AllOrNothing ==
    /\ pc = "committed" =>
            /\ completed = order
            /\ \A t \in Tables : tgt_committed[t] = tgt_pre[t] \o Rows(inserted[t])
    /\ pc # "committed" => tgt_committed = tgt_pre

\* C2 witness: a run that inserted rows, completed a table, then failed and
\* was rolled back.
C2_Witness ==
    /\ pc = "rolled_back"
    /\ Len(completed) >= 1
    /\ \E t \in Tables : Len(inserted[t]) >= 1

\* C3: after a committed run, with the parent converted and the child holding
\* a foreign key into it, every child row's foreign-key column is the new
\* identifier recorded for the parent row it referenced.
C3_ChildCarriesNewParentId ==
    pc = "committed" =>
        \A child \in Tables : \A c \in FkCols :
            LET parent == src_fks[child][c] IN
            (parent \in settings.uuid_tables /\ parent # child /\ tgt_fks[child][c] = parent) =>
                \A i \in 1..Len(inserted[child]) :
                    LET e == inserted[child][i]
                        old == SrcRow(src_fks, tgt_fks, src_nrows, child, e.key)[c]
                    IN old.kind = "int" =>
                        /\ old.v \in DOMAIN id_maps[parent]
                        /\ e.row[c] = id_maps[parent][old.v]

\* C4: after a committed run with validate enabled, every source table has as
\* many rows in the target as in the source.
C4_CountsEqualAfterCommit ==
    (pc = "committed" /\ settings.validate) =>
        \A t \in Tables : Len(tgt_committed[t]) = src_nrows[t]

\* identifiers held by the rows processed so far: inserted rows of converted
\* tables and the rows of the batch being built
ConvertedEntries ==
    UNION {{<<t, e.key, e.row[PkCol]>> : e \in Range(inserted[t])} : t \in settings.uuid_tables}

C5_State ==
    /\ \A t \in settings.uuid_tables : \A e \in Range(inserted[t]) :
            /\ e.row[PkCol].kind = "uuid"
            /\ e.key \in DOMAIN id_maps[t]
            /\ id_maps[t][e.key] = e.row[PkCol]
    /\ \A x \in ConvertedEntries : \A y \in ConvertedEntries :
            x[3] = y[3] => (x[1] = y[1] /\ x[2] = y[2])
    /\ \A t \in Tables : \A u \in Tables : \A k \in DOMAIN id_maps[t] : \A j \in DOMAIN id_maps[u] :
            id_maps[t][k] = id_maps[u][j] => (t = u /\ k = j)

\* C5: every inserted row of a converted table has as primary key the
\* identifier generated for it, distinct from the identifier of every other
\* row, and the identifier map of its table maps the row's old key to that
\* identifier; entries of the identifier maps are never removed or changed.
C5_FreshIdentifiers ==
    /\ []C5_State
    /\ [][\A t \in Tables : \A k \in DOMAIN id_maps[t] :
            k \in DOMAIN id_maps'[t] /\ id_maps'[t][k] = id_maps[t][k]]_vars

\* C5 witness: two converted tables, one with two inserted rows.
C5_Witness ==
    \E t \in settings.uuid_tables : \E u \in settings.uuid_tables \ {t} :
        Len(inserted[t]) >= 2 /\ Len(inserted[u]) >= 1

\* C6: with a cyclic foreign-key graph (self-reference included) dependency
\* resolution fails with a cyclic-dependency error and nothing is migrated.
C6_CycleIsAnError ==
    (Cyclic(Graph(src_fks)) /\ pc # "created") =>
        /\ raised = "CyclicDependencyError"
        /\ started = << >>
        /\ pc # "committed"

\* C7: a table of the source that the target lacks is not in the processing
\* order, nothing is inserted for it, and the run does not fail on it.
C7_SourceOnlyTableSkipped ==
    \A t \in Tables \ tgt_tables :
        /\ t \notin Range(order)
        /\ inserted[t] = << >>
        /\ raised # "KeyError"

\* C8: for a table that is not converted, every column-map entry (t <- s)
\* with s a source column puts the original source row's value of s at t,
\* and a data column that is not a target of the map keeps its source value.
C8_MapReadsOriginalRow ==
    \A t \in Tables \ settings.uuid_tables : \A e \in Range(inserted[t]) :
        LET cm == settings.column_maps[t]
            src == SrcRow(src_fks, tgt_fks, src_nrows, t, e.key)
        IN /\ \A i \in 1..Len(cm) :
                cm[i][2] \in DOMAIN src =>
                    (cm[i][1] \in DOMAIN e.row /\ e.row[cm[i][1]] = src[cm[i][2]])
           /\ \A c \in DataCols \ {cm[i][1] : i \in 1..Len(cm)} : e.row[c] = src[c]

C9_State ==
    /\ pc = "committed" => (raised = NoError /\ completed = order /\ started = order)
    /\ pc = "rolled_back" => raised # NoError
    /\ raised # NoError => pc \in {"running", "rolled_back"}

C9_Step ==
    /\ raised # NoError =>
            /\ raised' = raised
            /\ started' = started
            /\ completed' = completed
            /\ progress' = progress
            /\ inserted' = inserted
            /\ idx' = idx
    /\ Terminal => pc' = pc

\* C9: a run that started ends, either committed (only when _migrate_table
\* returned without error for every table of the order) or rolled back with
\* the error kept for the caller, and the outcome never changes; after the
\* first failure no table is started or completed and no progress is reported.
C9_OneTerminalOutcome ==
    /\ []C9_State
    /\ [][C9_Step]_vars
    /\ (pc = "running") ~> Terminal

\* C9 witness: a run rolled back after completing a table, with tables of the
\* order never started.
C9_Witness ==
    /\ pc = "rolled_back"
    /\ Len(completed) >= 1
    /\ Len(started) < Len(order)

ProgressOf(t) == SelectSeq(progress, LAMBDA p : p[1] = t)

\* the bulk insert of the current batch of t has executed and its progress
\* report is the next step
ReportPending(t) ==
    pc = "running" /\ idx <= Len(order) /\ order[idx] = t /\ mpc = "progress"

\* the batch loop of t has ended normally
BatchesDone(t) ==
    \/ t \in Range(completed)
    \/ idx <= Len(order) /\ order[idx] = t /\ mpc \in {"validate", "hook"}

\* C10: there is one progress report per executed bulk insert, made after the
\* insert, carrying (table, cumulative rows copied, source total); within a
\* table the cumulative count strictly increases, and the last report of a
\* non-empty table whose batches are done has rows copied = total.
C10_ProgressPerBatch ==
    \A t \in Tables :
        LET ps == ProgressOf(t) IN
        /\ Len(ps) = inserts_done[t] - (IF ReportPending(t) THEN 1 ELSE 0)
        /\ \A i \in 1..Len(ps) :
                /\ ps[i][3] = src_nrows[t]
                /\ ps[i][2] <= Len(inserted[t])
                /\ ps[i][2] > (IF i = 1 THEN 0 ELSE ps[i - 1][2])
        /\ (BatchesDone(t) /\ src_nrows[t] > 0) =>
                (Len(ps) >= 1 /\ ps[Len(ps)][2] = src_nrows[t])

\* C10 witness: a table copied in two or more batches, the last one not full.
C10_Witness ==
    \E t \in Range(completed) :
        /\ Len(ProgressOf(t)) >= 2
        /\ src_nrows[t] % settings.batch_size # 0 \/ settings.batch_size = 1

\* C11: a table with a registered split hook is migrated by the split path:
\* entering _migrate_table for it does not fail on the delegation, and a
\* committed run has completed it.
C11_SplitPathRuns ==
    \A t \in transforms.split :
        t \in Range(started) =>
            /\ raised # "AttributeError"
            /\ (pc = "committed" => t \in Range(completed))

\* C14: for every inserted row and every foreign-key column of the target
\* table referencing R: when the identifier map of R, as it was when the row
\* was processed, holds the column's value as an old key, the row carries the
\* recorded identifier in that column; otherwise the value is unchanged.
C14_RemapByCurrentMap ==
    \A t \in Tables : \A e \in Range(inserted[t]) : \A c \in FkCols :
        LET R == tgt_fks[t][c]
            old == ApplyColMap(SrcRow(src_fks, tgt_fks, src_nrows, t, e.key),
                               settings.column_maps[t])[c]
        IN R # NoTable =>
            IF old.kind = "int" /\ old.v \in DOMAIN e.maps[R]
            THEN e.row[c] = e.maps[R][old.v]
            ELSE e.row[c] = old

\* C14 witness: in one table a row was remapped to a recorded identifier and
\* a row referencing a key not yet recorded kept its value.
C14_Witness ==
    \E t \in Tables : \E c \in FkCols :
        /\ tgt_fks[t][c] # NoTable
        /\ \E e \in Range(inserted[t]) : e.row[c].kind = "uuid"
        /\ \E e \in Range(inserted[t]) : e.row[c].kind = "int"

Keys(log) == [i \in 1..Len(log) |-> log[i].key]

\* C15: the rows of a table are inserted in strictly ascending primary-key
\* order, each source row at most once, and once the batch loop of the table
\* has ended every source row has been inserted exactly once.
C15_EachRowOnceAscending ==
    \A t \in Tables :
        LET ks == Keys(inserted[t]) IN
        /\ \A i \in 1..Len(ks) : \A j \in 1..Len(ks) : i < j => ks[i] < ks[j]
        /\ Range(ks) \subseteq 1..src_nrows[t]
        /\ BatchesDone(t) => Range(ks) = 1..src_nrows[t]

\* C15 witness: a table whose rows were copied over more than one page, with
\* identifier conversion or a column map.
C15_Witness ==
    \E t \in Range(completed) :
        /\ inserts_done[t] >= 2
        /\ Len(inserted[t]) = src_nrows[t]
        /\ t \in settings.uuid_tables \/ settings.column_maps[t] # << >>

C16_State ==
    raised = "ValueError" =>
        /\ settings.validate
        /\ pc \in {"running", "rolled_back"}
        /\ order[idx] \notin Range(completed)
        /\ Len(started) = idx
        /\ pc = "rolled_back" => tgt_committed = tgt_pre

C16_Step ==
    /\ (/\ InTry /\ idx <= Len(order) /\ mpc = "validate"
        /\ settings.validate
        /\ Len(tgt_session[order[idx]]) # total_rows) => raised' = "ValueError"
    /\ raised = "ValueError" =>
        /\ started' = started
        /\ completed' = completed
        /\ inserted' = inserted
        /\ pc' # pc => (pc' = "rolled_back" /\ tgt_committed' = tgt_pre)

\* C16: with validate enabled, when the batches of a table are done and the
\* target table's row count differs from the source total, the next step
\* raises the row-count error; after it no table is started or completed,
\* nothing is inserted, and the run can only end rolled back, the target
\* holding its prior rows.
C16_MismatchRollsBack ==
    /\ []C16_State
    /\ [][C16_Step]_vars

\* C16 witness: a run rolled back on a row-count mismatch with tables of the
\* order never started.
C16_Witness ==
    /\ pc = "rolled_back"
    /\ raised = "ValueError"
    /\ Len(started) < Len(order)

HookCallsOf(t) == SelectSeq(hook_calls, LAMBDA h : h[1] = t)

\* the rows of the last page of t, empty when t has no rows
LastBatchOf(t) ==
    LET n == src_nrows[t]
        size == IF n = 0 THEN 0 ELSE n - settings.batch_size * ((n - 1) \div settings.batch_size)
    IN [i \in 1..size |-> inserted[t][n - size + i].row]

\* C17: for every table on the default path with a post-insert hook (tables
\* without rows included) the hook call does not fail the table, is made at
\* most once, only with all rows inserted, and a completed table has exactly
\* one call, with the rows of its last batch (empty when it has no rows).
C17_HookOncePerTable ==
    \A t \in transforms.transform \ transforms.split :
        /\ ~(raised = "UnboundLocalError" /\ idx <= Len(order) /\ order[idx] = t)
        /\ Len(HookCallsOf(t)) <= 1
        /\ Len(HookCallsOf(t)) = 1 => Len(inserted[t]) = src_nrows[t]
        /\ t \in Range(completed) =>
                /\ Len(HookCallsOf(t)) = 1
                /\ HookCallsOf(t)[1][2] = LastBatchOf(t)

\* C18: the order returned by _determine_order lists no table twice and only
\* source tables, also when a table has several foreign keys into the same
\* table; for an acyclic foreign-key graph it lists every source table.
C18_OrderListsTablesOnce ==
    pc # "created" =>
        /\ \A i \in 1..Len(order) : \A j \in 1..Len(order) : i # j => order[i] # order[j]
        /\ Range(order) \subseteq Tables
        /\ ~Cyclic(Graph(src_fks)) => Range(order) = Tables

\* C18 witness: an order computed for a schema in which addresses has two
\* foreign keys into users.
C18_Witness ==
    /\ pc # "created"
    /\ src_fks["addresses"]["fk1"] = "users"
    /\ src_fks["addresses"]["fk2"] = "users"
    /\ Len(order) = Cardinality(Tables)

\* C20: every row dictionary handed to the bulk insert has only keys that
\* are columns of the target table.
C20_InsertKeysAreTargetColumns ==
    (pc = "running" /\ idx <= Len(order) /\ mpc = "insert") =>
        \A i \in 1..Len(insert_rows) : DOMAIN insert_rows[i] \subseteq tgt_cols[order[idx]]

\* ------------------------------------------------------------------------
\* Properties of the column-map store
\* ------------------------------------------------------------------------
Max(S) == CHOOSE x \in S : \A y \in S : y <= x

\* the maps of the most recent of the first n completed saves made for one of
\* the given pairs, or the empty mapping
LastSaved(n, pairs) ==
    LET I == {i \in 1..n : saves[i].pair \in pairs} IN
    IF I = {} THEN NoMapping ELSE saves[Max(I)].maps

SameKey(pair) == {q \in Pairs : PairKey(q) = PairKey(pair)}

StoredKeys(f) == DOMAIN LoadFile(f)

C12_LoadByKey ==
    (procs = {1} /\ loaded # << >>) =>
        loaded.maps = LastSaved(loaded.at, SameKey(loaded.pair))

C12_OtherKeysKept ==
    (procs = {1} /\ Len(saves') = Len(saves) + 1) =>
        \A k \in StoredKeys(file) \ {PairKey(saves'[Len(saves')].pair)} :
            k \in StoredKeys(file') /\ LoadFile(file')[k] = LoadFile(file)[k]

\* C12 (as amended): with one process, load_mappings(P) returns the maps of
\* the most recent save made for any pair with the key string of P (the empty
\* mapping if there was none), and a save leaves the entry of every other key
\* string as it was.
C12_SaveLoadByKeyString == [](C12_LoadByKey) /\ [][C12_OtherKeysKept]_vars

\* the pair that loads is not the pair whose save it gets back, and an entry
\* under another key string is stored as well
C12_Witness ==
    /\ procs = {1}
    /\ loaded # << >>
    /\ loaded.maps # NoMapping
    /\ loaded.at = Len(saves)
    /\ LastSaved(loaded.at, {loaded.pair}) # loaded.maps
    /\ \E k \in StoredKeys(file) : k # PairKey(loaded.pair)

\* C12 (as stated): with one process, load_mappings(P) returns the maps of the
\* most recent save_mappings(P, .), or the empty mapping if P never saved.
C12_LoadReturnsOwnLastSave ==
    (procs = {1} /\ loaded # << >>) =>
        loaded.maps = LastSaved(loaded.at, {loaded.pair})

LastSave == saves[Len(saves)]

\* C19: a save whose read preceded other writes overwrites them: the
\* document after the last write is the one its writer read with the writer's
\* own entry replaced, and a write that landed between that read and that
\* write is not in it (its key is absent when the document read had no such
\* key).
C19_LastWriterWins ==
    saves # << >> =>
        /\ file.kind = "json"
        /\ DOMAIN file.doc = DOMAIN LastSave.data \cup {PairKey(LastSave.pair)}
        /\ \A k \in DOMAIN file.doc :
              file.doc[k] = IF k = PairKey(LastSave.pair) THEN LastSave.maps
                            ELSE LastSave.data[k]
        /\ \A l \in LastSave.lost :
              (l.key # PairKey(LastSave.pair) /\ l.key \notin DOMAIN LastSave.data) =>
                  l.key \notin DOMAIN file.doc

\* both saves read before either wrote, for pairs with different keys: the
\* earlier writer's entry is gone
C19_Witness ==
    /\ Len(saves) = 2
    /\ saves[1].proc # saves[2].proc
    /\ saves[1].data = saves[2].data
    /\ \E l \in LastSave.lost :
          /\ l.key = PairKey(saves[1].pair)
          /\ l.key # PairKey(LastSave.pair)
          /\ l.key \notin DOMAIN file.doc

\* ------------------------------------------------------------------------
\* Properties of compare_constraints
\* ------------------------------------------------------------------------
PkCountsDiffer == Cardinality(cc.src.pk) # Cardinality(cc.tgt.pk)

NotNullSetsDiffer ==
    \E c \in TableColumns : cc.src.nullable[c] # cc.tgt.nullable[c]

SourceFkUnmatched ==
    \E c \in FkCols :
        /\ cc.src.fks[c] # NoTable
        /\ \A d \in FkCols : cc.tgt.fks[d] # cc.src.fks[c]

Count(b) == IF b THEN 1 ELSE 0

Reported(msg) == \E i \in 1..Len(cc.issues) : cc.issues[i].msg = msg

C13_State ==
    cc.pc = "returned" =>
        /\ cc.issues = << >> <=> (~PkCountsDiffer /\ ~NotNullSetsDiffer /\ ~SourceFkUnmatched)
        /\ Len(cc.issues) = Count(PkCountsDiffer) + Count(NotNullSetsDiffer)
                            + Count(SourceFkUnmatched)
        /\ Reported("Primary key column count mismatch") <=> PkCountsDiffer
        /\ Reported("NOT NULL columns differ") <=> NotNullSetsDiffer
        /\ Reported("Missing FKs in target") <=> SourceFkUnmatched

C13_TablesKept == cc'.src = cc.src /\ cc'.tgt = cc.tgt

\* C13: compare_constraints returns the empty list exactly when the two
\* tables have equally many primary-key columns, the same not-null column
\* names and every table a source foreign key references is referenced by a
\* target foreign key; otherwise one discrepancy per violated check (at most
\* three); the two tables are not modified.
C13_OneIssuePerViolatedCheck == [](C13_State) /\ [][C13_TablesKept]_vars

\* no discrepancy although the target references a table the source does not
C13_Witness ==
    /\ cc.pc = "returned"
    /\ cc.issues = << >>
    /\ cc.src.pk # cc.tgt.pk
    /\ \E d \in FkCols : cc.tgt.fks[d] # NoTable /\ \A c \in FkCols : cc.src.fks[c] # cc.tgt.fks[d]

\* ------------------------------------------------------------------------
\* Termination of the batch loop
\* ------------------------------------------------------------------------
\* the while loop of _migrate_table is running for table t
InLoop(t) ==
    /\ pc = "running" /\ raised = NoError
    /\ idx <= Len(order) /\ order[idx] = t
    /\ mpc \in {"fetch", "insert", "progress"}

\* no page query follows an empty page, and there are at most (rows) + 1
C21_State ==
    \A t \in Tables :
        /\ Len(pages[t]) <= src_nrows[t] + 1
        /\ \A i \in 1..(Len(pages[t]) - 1) : pages[t][i] > 0
        /\ (Len(pages[t]) > 0 /\ pages[t][Len(pages[t])] = 0) => ~InLoop(t)

\* a page holds only rows whose key is greater than that of every row of the
\* pages before it
C21_Step ==
    (mpc = "fetch" /\ mpc' = "insert") =>
        \A i \in 1..Len(batch_keys') :
            /\ \A j \in 1..Len(batch_keys) : batch_keys'[i] > batch_keys[j]
            /\ \A e \in Range(inserted[order[idx]]) : batch_keys'[i] > e.key

\* C21: for every row count and every batch size >= 1 the batch loop of a
\* table ends; every page has only rows with a key greater than the last one
\* seen, the loop ends at the first empty page, and there are at most
\* (number of rows) + 1 page queries.
C21_BatchLoopTerminates ==
    /\ [](C21_State)
    /\ [][C21_Step]_vars
    /\ \A t \in Tables : InLoop(t) ~> ~InLoop(t)

\* one loop needed (number of rows) + 1 page queries, the loop of an empty
\* table ended at its first page
C21_Witness ==
    /\ pc = "committed"
    /\ \E t \in Tables : src_nrows[t] = MaxRows /\ Len(pages[t]) = MaxRows + 1
    /\ \E t \in Tables : src_nrows[t] = 0 /\ pages[t] = <<0>>

====
